---- MODULE Spec2Model ----
(***************************************************************************)
(* Model of mask_generator.py: the PasswordMask class (compliance,         *)
(* entropy, user friendliness, risk score) and the main() pipeline         *)
(* (argument parsing, enumeration, filtering, sorting, printing).          *)
(*                                                                         *)
(* Numbers.  Python floats appear in two places.                           *)
(*  - calculate_entropy builds `combinations` with math.pow and takes      *)
(*    int(math.log(combinations, 2)).  combinations is held as the exact   *)
(*    natural number, in base-2^15 limbs (least significant first); the    *)
(*    rounding of the float operations is accounted for in log2_int.       *)
(*  - risk_score is a float quotient.  It is modelled as the exact         *)
(*    rational [n, d] with d > 0; the literal .001 is the rational 1/1000. *)
(*    Entropy and friendliness are integers of at most three digits, so    *)
(*    two quotients are equal or ordered as doubles exactly as they are    *)
(*    as rationals, and float(e) / .001 rounds to 1000 * e.                *)
(***************************************************************************)
EXTENDS Integers, Sequences, FiniteSets, TLC

VARIABLES pc, argv, lengths, li, it, c, mask, prev,
          count_total, count_valid, compliant_masks, output, pi

vars == <<pc, argv, lengths, li, it, c, mask, prev,
          count_total, count_valid, compliant_masks, output, pi>>

(***************************************************************************)
(* Bounds                                                                  *)
(***************************************************************************)
MaxLen == 4
MaxMaskLen == 5
MaxShiftLen == 10

Symbols == {"l", "u", "d", "s"}

(***************************************************************************)
(* Exact natural numbers in limbs, the value of the float `combinations`.  *)
(***************************************************************************)
LimbBase == 32768
LimbBits == 15

BigOne == <<1>>

RECURSIVE BigMulFrom(_, _, _, _)
BigMulFrom(x, k, i, carry) ==
    IF i > Len(x)
    THEN IF carry = 0 THEN <<>> ELSE <<carry>>
    ELSE LET t == x[i] * k + carry
         IN  <<t % LimbBase>> \o BigMulFrom(x, k, i + 1, t \div LimbBase)

\* x * k for a small factor k
BigMul(x, k) == BigMulFrom(x, k, 1, 0)

RECURSIVE BigMulPow(_, _, _)
\* x * k^n
BigMulPow(x, k, n) == IF n = 0 THEN x ELSE BigMulPow(BigMul(x, k), k, n - 1)

RECURSIVE SmallLog2(_)
SmallLog2(t) == IF t <= 1 THEN 0 ELSE 1 + SmallLog2(t \div 2)

\* the k with 2^k <= x < 2^(k+1), for x >= 1
BigLog2(x) == LimbBits * (Len(x) - 1) + SmallLog2(x[Len(x)])

RECURSIVE BigAddFrom(_, _, _, _)
BigAddFrom(x, y, i, carry) ==
    IF i > Len(x) /\ i > Len(y)
    THEN IF carry = 0 THEN <<>> ELSE <<carry>>
    ELSE LET t == (IF i <= Len(x) THEN x[i] ELSE 0)
                  + (IF i <= Len(y) THEN y[i] ELSE 0) + carry
         IN  <<t % LimbBase>> \o BigAddFrom(x, y, i + 1, t \div LimbBase)

\* x + y
BigAdd(x, y) == BigAddFrom(x, y, 1, 0)

\* x * 2^e
BigShift(x, e) == [i \in 1..(e \div LimbBits) |-> 0] \o BigMul(x, 2 ^ (e % LimbBits))

\* x < y
BigLess(x, y) ==
    \/ Len(x) < Len(y)
    \/ /\ Len(x) = Len(y)
       /\ \E i \in 1..Len(x) :
             /\ x[i] < y[i]
             /\ \A j \in (i + 1)..Len(x) : x[j] = y[j]

(***************************************************************************)
(* int(math.log(x, 2)) on doubles.  math.pow, the products and             *)
(* log(x) / log(2) each round to 53 bits, so the quotient is the true      *)
(* log2(x) up to an absolute error far below 2^-LogSlackBits for the       *)
(* magnitudes a mask gives; int() then yields the true floor k unless x    *)
(* lies within the relative distance 2^-LogSlackBits of a power of two,    *)
(* where the rounding decides between k and its neighbour.  log(1.0) is    *)
(* exactly 0.0.  The outcome is the set of values the build can produce.   *)
(***************************************************************************)
LogSlackBits == 40

log2_int(x) ==
    IF x = BigOne THEN {0}
    ELSE LET k == BigLog2(x)
             scaled == BigShift(x, LogSlackBits)
             \* x < 2^k * (1 + 2^-LogSlackBits)
             near_above == BigLess(scaled, BigAdd(BigShift(BigOne, k + LogSlackBits),
                                                  BigShift(BigOne, k)))
             \* x > 2^(k+1) * (1 - 2^-LogSlackBits)
             near_below == BigLess(BigShift(BigOne, k + 1 + LogSlackBits),
                                   BigAdd(scaled, BigShift(BigOne, k + 1)))
         IN  {k} \cup (IF near_above /\ k > 0 THEN {k - 1} ELSE {})
                 \cup (IF near_below THEN {k + 1} ELSE {})

(***************************************************************************)
(* class PasswordMask                                                      *)
(***************************************************************************)
\* tuple.count
Count(m, sym) == Cardinality({i \in 1..Len(m) : m[i] = sym})

\* counts = [mask.count('l'), mask.count('u'), mask.count('d'), mask.count('s')]
Counts(m) == <<Count(m, "l"), Count(m, "u"), Count(m, "d"), Count(m, "s")>>

assess_mask_all_four(m) ==
    LET counts == Counts(m)
        num_non_zero == Len(counts) - Cardinality({i \in 1..Len(counts) : counts[i] = 0})
    IN  IF num_non_zero > 3 THEN TRUE ELSE FALSE

assess_mask(m) ==
    LET counts == Counts(m)
        num_non_zero == Len(counts) - Cardinality({i \in 1..Len(counts) : counts[i] = 0})
    IN  IF num_non_zero >= 3 THEN TRUE ELSE FALSE

count_letter_places_lower_only(m) == Counts(m)[1]

count_letter_places(m) == Counts(m)[1] + Counts(m)[2]

count_digit_places(m) == Counts(m)[3]

count_special_places(m) == Counts(m)[4]

combinations_assign(m) ==
    LET c1 == IF count_letter_places(m) > 0
              THEN BigMulPow(BigOne, 26, count_letter_places(m)) ELSE BigOne
        c2 == IF count_digit_places(m) > 0
              THEN BigMulPow(BigOne, 10, count_digit_places(m)) ELSE c1
        c3 == IF count_special_places(m) > 0
              THEN BigMulPow(c2, 30, count_special_places(m)) ELSE c2
    IN  c3

combinations(m) ==
    LET c1 == IF count_letter_places(m) > 0
              THEN BigMulPow(BigOne, 26, count_letter_places(m)) ELSE BigOne
        c2 == IF count_digit_places(m) > 0
              THEN BigMulPow(c1, 10, count_digit_places(m)) ELSE c1
        c3 == IF count_special_places(m) > 0
              THEN BigMulPow(c2, 30, count_special_places(m)) ELSE c2
    IN  c3

\* the values calculate_entropy can return
calculate_entropy(m) == log2_int(combinations(m))

RECURSIVE friendliness_loop_wrap(_, _, _)
friendliness_loop_wrap(m, i, score) ==
    IF i > Len(m) THEN score
    ELSE LET ch == m[i]
             s1 == IF ch = "u" \/ ch = "s" THEN score - 10 ELSE score
             s2 == IF ch = "l" THEN s1 + 2 ELSE s1
             before == IF i = 1 THEN m[Len(m)] ELSE m[i - 1]
             s3 == IF ch = before THEN s2 + 5 ELSE s2
         IN  friendliness_loop_wrap(m, i + 1, s3)

RECURSIVE friendliness_loop(_, _, _)
\* the body of `for i, c in enumerate(self.mask)`, positions counted from 1
friendliness_loop(m, i, score) ==
    IF i > Len(m) THEN score
    ELSE LET ch == m[i]
             s1 == IF ch = "u" \/ ch = "s" THEN score - 10 ELSE score
             s2 == IF ch = "l" THEN s1 + 2 ELSE s1
             s3 == IF i # 1 /\ ch = m[i - 1] THEN s2 + 5 ELSE s2
         IN  friendliness_loop(m, i + 1, s3)

calculate_user_friendliness_wrap(m) == friendliness_loop_wrap(m, 1, 100)

calculate_user_friendliness(m) == friendliness_loop(m, 1, 100)

\* the outcome of a float division by zero, which raises
ZeroDivisionError == [n |-> 0, d |-> 0]

\* float(x)
Float(x) == [n |-> x, d |-> 1]

\* the literal .001
Milli == [n |-> 1, d |-> 1000]

\* x / y on floats; the denominator of the result is kept positive
FloatDiv(x, y) ==
    IF y.n = 0 THEN ZeroDivisionError
    ELSE IF y.n > 0 THEN [n |-> x.n * y.d, d |-> x.d * y.n]
    ELSE [n |-> -(x.n * y.d), d |-> -(x.d * y.n)]

risk_score_positive_only(entropy, user_friendliness) ==
    IF user_friendliness > 0
    THEN FloatDiv(Float(entropy), Float(user_friendliness))
    ELSE FloatDiv(Float(entropy), Milli)

risk_score(entropy, user_friendliness) ==
    IF user_friendliness # 0
    THEN FloatDiv(Float(entropy), Float(user_friendliness))
    ELSE FloatDiv(Float(entropy), Milli)

RECURSIVE Join(_, _)
\* sep.join(m), a string as the sequence of its characters
Join(sep, m) ==
    IF Len(m) = 0 THEN <<>>
    ELSE IF Len(m) = 1 THEN <<m[1]>>
    ELSE <<m[1], sep>> \o Join(sep, Tail(m))

mask_string(m) == <<"?">> \o Join("?", m)

\* PasswordMask.__init__, for the value `entropy` that calculate_entropy returned
PasswordMask(m, entropy) ==
    LET user_friendliness == calculate_user_friendliness(m)
    IN  [mask |-> m,
         entropy |-> entropy,
         compliant |-> assess_mask(m),
         user_friendliness |-> user_friendliness,
         mask_string |-> mask_string(m),
         risk_score |-> risk_score(entropy, user_friendliness)]

(***************************************************************************)
(* main()                                                                  *)
(*                                                                         *)
(* sys.argv[1] is [dash, start, end]: "N" is [dash |-> FALSE, start |-> N, *)
(* end |-> N] and "A-B" is [dash |-> TRUE, start |-> A, end |-> B].  A     *)
(* negative number is written with a '-', which the code takes for the     *)
(* range separator: split('-') then yields an empty field or a third       *)
(* field, and int('') or the unpacking raises ValueError.                  *)
(***************************************************************************)
Unbound == [unbound |-> TRUE]

NoIterator == [next |-> <<>>, stop |-> TRUE]

Arguments ==
    {[dash |-> FALSE, start |-> n, end |-> n] : n \in -1..MaxLen}
    \cup {[dash |-> TRUE, start |-> a, end |-> b] :
            a \in -1..(MaxLen + 1), b \in -1..(MaxLen + 1)}

type_strings_luds == <<"l", "u", "d", "s">>

\* type_strings = 'ulds'
type_strings == <<"u", "l", "d", "s">>

range_inclusive(start, end) == [i \in 1..(IF end >= start THEN end - start + 1 ELSE 0) |-> start + i - 1]

\* list(range(start, end))
range(start, end) == [i \in 1..(IF end > start THEN end - start ELSE 0) |-> start + i - 1]

IndexIn(pool, sym) == CHOOSE k \in 1..Len(pool) : pool[k] = sym

\* itertools.product(pool, repeat=l): the iterator before its first element
product(pool, l) == [next |-> [i \in 1..l |-> pool[1]], stop |-> FALSE]

\* the iterator after it has yielded t: the rightmost position that can move
\* takes the next symbol of the pool and the positions right of it start over
product_advance(pool, t) ==
    LET movable == {i \in 1..Len(t) : IndexIn(pool, t[i]) < Len(pool)}
    IN  IF movable = {} THEN NoIterator
        ELSE LET p == CHOOSE i \in movable : \A j \in movable : j <= i
             IN  [next |-> [i \in 1..Len(t) |->
                              IF i < p THEN t[i]
                              ELSE IF i = p THEN pool[IndexIn(pool, t[i]) + 1]
                              ELSE pool[1]],
                  stop |-> FALSE]

\* x < y on risk scores
RiskLess(x, y) == x.n * y.d < y.n * x.d

RECURSIVE sort_by_risk_score_reversed(_)
sort_by_risk_score_reversed(masks) ==
    IF masks = <<>> THEN <<>>
    ELSE LET keys == {masks[i].risk_score : i \in 1..Len(masks)}
             top == CHOOSE k \in keys : \A k2 \in keys : ~RiskLess(k, k2)
         IN  SelectSeq(masks, LAMBDA m : ~RiskLess(m.risk_score, top))
             \o sort_by_risk_score_reversed(
                    SelectSeq(masks, LAMBDA m : RiskLess(m.risk_score, top)))

RECURSIVE sort_by_risk_score(_)
\* compliant_masks.sort(key=lambda x: x.risk_score): ascending and stable, so
\* the elements with the least key come first, in the order they had, and the
\* others follow, sorted the same way
sort_by_risk_score(masks) ==
    IF masks = <<>> THEN <<>>
    ELSE LET keys == {masks[i].risk_score : i \in 1..Len(masks)}
             least == CHOOSE k \in keys : \A k2 \in keys : ~RiskLess(k2, k)
         IN  SelectSeq(masks, LAMBDA m : ~RiskLess(least, m.risk_score))
             \o sort_by_risk_score(
                    SelectSeq(masks, LAMBDA m : RiskLess(least, m.risk_score)))

progress_line_swapped(valid, total) == [kind |-> "progress", valid |-> total, total |-> valid]

\* "generated %s valid masks from %s possible combinations:" % (valid, total)
progress_line(valid, total) == [kind |-> "progress", valid |-> valid, total |-> total]

\* "%s" % (m.mask_string)
mask_line(m) == [kind |-> "mask", text |-> m.mask_string]

Init ==
    /\ pc = "start"
    /\ argv \in Arguments
    /\ lengths = <<>>
    /\ li = 0
    /\ it = NoIterator
    /\ c = <<>>
    /\ mask = Unbound
    /\ prev = <<>>
    /\ count_total = 0
    /\ count_valid = 0
    /\ compliant_masks = <<>>
    /\ output = <<>>
    /\ pi = 0

\* int('') or unpacking three fields into start, end
ParseValueError ==
    /\ pc = "start"
    /\ argv.start < 0 \/ (argv.dash /\ argv.end < 0)
    /\ pc' = "ValueError"
    /\ UNCHANGED <<argv, lengths, li, it, c, mask, prev,
                   count_total, count_valid, compliant_masks, output, pi>>

\* assert start < end
ParseAssertionError ==
    /\ pc = "start"
    /\ argv.dash /\ argv.start >= 0 /\ argv.end >= 0
    /\ ~(argv.start < argv.end)
    /\ pc' = "AssertionError"
    /\ UNCHANGED <<argv, lengths, li, it, c, mask, prev,
                   count_total, count_valid, compliant_masks, output, pi>>

ParseArgs ==
    /\ pc = "start"
    /\ argv.start >= 0
    /\ IF argv.dash
       THEN /\ argv.end >= 0
            /\ argv.start < argv.end
            /\ lengths' = range(argv.start, argv.end)
       ELSE lengths' = range(argv.start, argv.start + 1)
    /\ compliant_masks' = <<>>
    /\ li' = 0
    /\ pc' = "for_l"
    /\ UNCHANGED <<argv, it, c, mask, prev, count_total, count_valid, output, pi>>

\* for l in lengths: the next length, its iterator and its counters
ForLength ==
    /\ pc = "for_l"
    /\ li < Len(lengths)
    /\ li' = li + 1
    /\ it' = product(type_strings, lengths[li + 1])
    /\ count_total' = 0
    /\ count_valid' = 0
    /\ pc' = "for_c"
    /\ UNCHANGED <<argv, lengths, c, mask, prev, compliant_masks, output, pi>>

\* for c in combinations: one pass of the body
ForCombination ==
    /\ pc = "for_c"
    /\ ~it.stop
    /\ c' = it.next
    /\ it' = product_advance(type_strings, it.next)
    /\ \E entropy \in calculate_entropy(it.next) : mask' = PasswordMask(it.next, entropy)
    /\ count_total' = count_total + 1
    /\ IF mask'.compliant
       THEN /\ compliant_masks' = Append(compliant_masks, mask')
            /\ count_valid' = count_valid + 1
       ELSE UNCHANGED <<compliant_masks, count_valid>>
    /\ UNCHANGED <<pc, argv, lengths, li, prev, output, pi>>

\* the print that follows the inner loop
PrintProgress ==
    /\ pc = "for_c"
    /\ it.stop
    /\ output' = Append(output, progress_line(count_valid, count_total))
    /\ pc' = "for_l"
    /\ UNCHANGED <<argv, lengths, li, it, c, mask, prev,
                   count_total, count_valid, compliant_masks, pi>>

\* compliant_masks.sort(...), once the lengths are exhausted
Sort ==
    /\ pc = "for_l"
    /\ li = Len(lengths)
    /\ compliant_masks' = sort_by_risk_score(compliant_masks)
    /\ pi' = 0
    /\ pc' = "for_m"
    /\ UNCHANGED <<argv, lengths, li, it, c, mask, prev,
                   count_total, count_valid, output>>

\* for m in compliant_masks: print
PrintMask ==
    /\ pc = "for_m"
    /\ pi < Len(compliant_masks)
    /\ pi' = pi + 1
    /\ output' = Append(output, mask_line(compliant_masks[pi + 1]))
    /\ UNCHANGED <<pc, argv, lengths, li, it, c, mask, prev,
                   count_total, count_valid, compliant_masks>>

Return ==
    /\ pc = "for_m"
    /\ pi = Len(compliant_masks)
    /\ pc' = "done"
    /\ UNCHANGED <<argv, lengths, li, it, c, mask, prev,
                   count_total, count_valid, compliant_masks, output, pi>>

Next ==
    \/ ParseValueError
    \/ ParseAssertionError
    \/ ParseArgs
    \/ ForLength
    \/ ForCombination
    \/ PrintProgress
    \/ Sort
    \/ PrintMask
    \/ Return

Spec == Init /\ [][Next]_vars

(***************************************************************************)
(* SpecMask: PasswordMask applied to masks drawn from bounded sets.        *)
(* c is the tuple, mask the object built from it, prev the object built    *)
(* from the tuple before a symbol was appended (<<>> while there is none). *)
(***************************************************************************)
Tuples(S, n) == [1..n -> S]

\* every mask up to MaxMaskLen
ShortMasks == UNION {Tuples(Symbols, n) : n \in 0..MaxMaskLen}

\* masks that start with a run of shifted symbols, then at most one more symbol
ShiftMasks ==
    {h \o t : h \in UNION {Tuples({"u", "s"}, n) : n \in 0..MaxShiftLen},
              t \in Tuples(Symbols, 0) \cup Tuples(Symbols, 1)}

InputMasks == ShortMasks \cup ShiftMasks

MainIdle ==
    /\ argv = Unbound /\ lengths = <<>> /\ li = 0 /\ it = NoIterator
    /\ count_total = 0 /\ count_valid = 0
    /\ compliant_masks = <<>> /\ output = <<>> /\ pi = 0

InitMask ==
    /\ pc = "new"
    /\ c \in InputMasks
    /\ mask = Unbound
    /\ prev = <<>>
    /\ MainIdle

\* mask = PasswordMask(c)
Construct ==
    /\ pc = "new"
    /\ \E entropy \in calculate_entropy(c) : mask' = PasswordMask(c, entropy)
    /\ pc' = "scored"
    /\ UNCHANGED <<argv, lengths, li, it, c, prev,
                   count_total, count_valid, compliant_masks, output, pi>>

\* PasswordMask(c + (sym,)), keeping the object of c
Extend ==
    /\ pc = "scored"
    /\ prev = <<>>
    /\ \E sym \in Symbols :
          /\ c' = Append(c, sym)
          /\ \E entropy \in calculate_entropy(Append(c, sym)) :
                mask' = PasswordMask(Append(c, sym), entropy)
    /\ prev' = <<mask>>
    /\ UNCHANGED <<pc, argv, lengths, li, it,
                   count_total, count_valid, compliant_masks, output, pi>>

NextMask == Construct \/ Extend

SpecMask == InitMask /\ [][NextMask]_vars

(***************************************************************************)
(* Properties of PasswordMask, checked under SpecMask                      *)
(***************************************************************************)
Classes(m) == {m[i] : i \in 1..Len(m)}

Places(m, S) == Cardinality({i \in 1..Len(m) : m[i] \in S})

Repeats(m) == Cardinality({i \in 2..Len(m) : m[i] = m[i - 1]})

\* 2^e on limbs
BigPow2(e) ==
    [i \in 1..(e \div LimbBits + 1) |->
        IF i = e \div LimbBits + 1 THEN 2 ^ (e % LimbBits) ELSE 0]

\* 26^L * 10^D * 30^S
SearchSpace(m) ==
    BigMulPow(BigMulPow(BigMulPow(BigOne, 30, Places(m, {"s"})),
                        10, Places(m, {"d"})),
              26, Places(m, {"l", "u"}))

\* C1: compliant is true iff at least 3 of the 4 classes occur in the mask;
\* (Lower,Lower,Digit) is non-compliant and (Lower,Upper,Digit) is compliant.
C1_CompliantIffThreeClasses ==
    pc = "scored" =>
        /\ mask.compliant <=> Cardinality(Classes(c)) >= 3
        /\ c = <<"l", "l", "d">> => ~mask.compliant
        /\ c = <<"l", "u", "d">> => mask.compliant

C1_Witness ==
    /\ pc = "scored"
    /\ c = <<"l", "u", "d">>
    /\ mask.compliant

\* C6: user_friendliness is 100 - 10 per Upper or Special + 2 per Lower + 5 per
\* position whose symbol repeats the one before it, with no clamping;
\* (Lower,Lower) gives 109 and (Upper,Special) gives 80.
C6_FriendlinessFormula ==
    pc = "scored" =>
        /\ mask.user_friendliness =
              100 - 10 * Places(c, {"u", "s"}) + 2 * Places(c, {"l"}) + 5 * Repeats(c)
        /\ c = <<"l", "l">> => mask.user_friendliness = 109
        /\ c = <<"u", "s">> => mask.user_friendliness = 80

C6_Witness ==
    /\ pc = "scored"
    /\ mask.user_friendliness < 0
    /\ Repeats(c) > 0

\* C7: entropy is the integer e >= 0 with 2^e <= 26^L * 10^D * 30^S < 2^(e+1),
\* and 0 for the empty mask.
C7_EntropyIsFloorLog2 ==
    pc = "scored" =>
        /\ mask.entropy >= 0
        /\ ~BigLess(SearchSpace(c), BigPow2(mask.entropy))
        /\ BigLess(SearchSpace(c), BigPow2(mask.entropy + 1))
        /\ c = <<>> => mask.entropy = 0

C7_Witness ==
    /\ pc = "scored"
    /\ mask.entropy >= 47
    /\ Cardinality(Classes(c)) >= 3

\* C8: risk_score is entropy / friendliness when friendliness is not 0 (so it is
\* non-positive for a negative friendliness), 1000 * entropy when friendliness
\* is 0, and building a scored mask never divides by zero.
C8_RiskScore ==
    pc = "scored" =>
        LET r == mask.risk_score
            e == mask.entropy
            f == mask.user_friendliness
        IN  /\ r # ZeroDivisionError
            /\ r.d > 0
            /\ f # 0 => r.n * f = e * r.d
            /\ f < 0 => r.n <= 0
            /\ f = 0 => r.n = 1000 * e * r.d

C8_Witness ==
    /\ pc = "scored"
    /\ mask.user_friendliness = 0
    /\ mask.compliant
    /\ mask.risk_score.n = 1000 * mask.entropy * mask.risk_score.d

\* C10: entropy is never negative, and appending a symbol to a mask never
\* lowers its entropy.
C10_EntropyMonotone ==
    pc = "scored" =>
        /\ mask.entropy >= 0
        /\ prev # <<>> => mask.entropy >= prev[1].entropy

C10_Witness ==
    /\ pc = "scored"
    /\ prev # <<>>
    /\ Len(c) > MaxMaskLen
    /\ mask.entropy > prev[1].entropy

(***************************************************************************)
(* Properties of main(), checked under Spec                                *)
(***************************************************************************)
MaskLines == SelectSeq(output, LAMBDA ln : ln.kind = "mask")

\* the lengths the argument asks for
Requested == IF argv.dash THEN argv.start..(argv.end - 1) ELSE {argv.start}

\* the text ?c1?c2...?cn of a mask
Render(m) == [j \in 1..(2 * Len(m)) |-> IF j % 2 = 1 THEN "?" ELSE m[j \div 2]]

\* the mask a line of text stands for
Unrender(text) == [i \in 1..(Len(text) \div 2) |-> text[2 * i]]

CompliantMasks(n) == {m \in Tuples(Symbols, n) : Cardinality(Classes(m)) >= 3}

UpperFirst == <<"u", "l", "d", "s">>

LowerFirst == <<"l", "u", "d", "s">>

RECURSIVE LexRank(_, _)
\* the place, from 0, of m among the tuples of its length in the lexicographic
\* order of the symbol order `order`
LexRank(m, order) ==
    IF m = <<>> THEN 0
    ELSE 4 * LexRank(SubSeq(m, 1, Len(m) - 1), order) + (IndexIn(order, m[Len(m)]) - 1)

\* m1 is enumerated before m2
EnumeratedBefore(m1, m2) ==
    \/ Len(m1) < Len(m2)
    \/ Len(m1) = Len(m2) /\ LexRank(m1, type_strings) < LexRank(m2, type_strings)

\* C2: when main finishes on N or on A-B with A < B, the emitted masks are the
\* compliant masks of the requested lengths, each exactly once, and nothing else.
C2_EmitsExactlyCompliant ==
    pc = "done" =>
        LET emitted == MaskLines
        IN  /\ \A i \in 1..Len(emitted) :
                 LET m == Unrender(emitted[i].text)
                 IN  /\ emitted[i].text = Render(m)
                     /\ Len(m) \in Requested
                     /\ Cardinality(Classes(m)) >= 3
            /\ \A n \in Requested : \A m \in CompliantMasks(n) :
                 LET text == Render(m)
                 IN  Cardinality({i \in 1..Len(emitted) : emitted[i].text = text}) = 1

C2_Witness ==
    /\ pc = "done"
    /\ argv.dash
    /\ Cardinality(Requested) >= 2
    /\ \E i, j \in 1..Len(output) :
          /\ output[i].kind = "mask" /\ output[j].kind = "mask"
          /\ Len(output[i].text) # Len(output[j].text)

\* C3: the mask lines are in non-decreasing order of risk_score, and two masks
\* of equal risk_score are in the order in which they were enumerated.
C3_SortedAndStable ==
    pc = "done" =>
        LET emitted == MaskLines
        IN  /\ Len(emitted) = Len(compliant_masks)
            /\ \A i \in 1..Len(emitted) :
                 /\ emitted[i].text = Render(compliant_masks[i].mask)
                 /\ \A j \in (i + 1)..Len(emitted) :
                      \/ RiskLess(compliant_masks[i].risk_score,
                                  compliant_masks[j].risk_score)
                      \/ /\ ~RiskLess(compliant_masks[j].risk_score,
                                      compliant_masks[i].risk_score)
                         /\ EnumeratedBefore(compliant_masks[i].mask,
                                             compliant_masks[j].mask)

C3_Witness ==
    /\ pc = "done"
    /\ \E i \in 1..(Len(compliant_masks) - 1) :
          /\ ~RiskLess(compliant_masks[i].risk_score, compliant_masks[i + 1].risk_score)
          /\ output[Len(lengths) + i].text = compliant_masks[i].mask_string
    /\ \E i \in 1..(Len(compliant_masks) - 1) :
          /\ RiskLess(compliant_masks[i].risk_score, compliant_masks[i + 1].risk_score)
          /\ EnumeratedBefore(compliant_masks[i + 1].mask, compliant_masks[i].mask)

\* C4 (as the code has it): the masks of length n come in the lexicographic
\* product order in which the symbols are ordered Upper, Lower, Digit, Special:
\* the first is all-Upper, the last all-Special, and there are 4^n of them.
C4_UpperFirstOrder ==
    (pc = "for_c" /\ count_total > 0) =>
        /\ Len(c) = lengths[li]
        /\ LexRank(c, UpperFirst) = count_total - 1
        /\ count_total = 1 => \A i \in 1..Len(c) : c[i] = "u"
        /\ it.stop <=> count_total = 4 ^ Len(c)
        /\ it.stop => \A i \in 1..Len(c) : c[i] = "s"

C4_Witness ==
    /\ pc = "for_c"
    /\ it.stop
    /\ Len(c) >= 3
    /\ count_total = 4 ^ Len(c)
    /\ \A i \in 1..Len(c) : c[i] = "s"

\* C4 (as claimed): the masks of length n come in the lexicographic product
\* order in which the symbols are ordered Lower, Upper, Digit, Special: the
\* first is all-Lower and the last all-Special.
C4_LowerFirstOrder ==
    (pc = "for_c" /\ count_total > 0) =>
        /\ Len(c) = lengths[li]
        /\ LexRank(c, LowerFirst) = count_total - 1
        /\ count_total = 1 => \A i \in 1..Len(c) : c[i] = "l"
        /\ it.stop => \A i \in 1..Len(c) : c[i] = "s"

\* C5: a non-positive length and an inverted range are rejected before any
\* generation: nothing is enumerated or scored and no progress line is printed.
C5_RejectedBeforeGeneration ==
    (argv.start <= 0 \/ (argv.dash /\ argv.start >= argv.end)) =>
        /\ pc \in {"start", "ValueError", "AssertionError"}
        /\ count_total = 0
        /\ output = <<>>

RECURSIVE SumValid(_, _)
\* the sum of the valid counts of the first k lines
SumValid(lines, k) == IF k = 0 THEN 0 ELSE lines[k].valid + SumValid(lines, k - 1)

\* the lengths whose inner loop and progress print are over
LengthsDone == IF pc = "for_c" THEN li - 1 ELSE li

\* C9: each requested length n gets one progress line, in ascending order of
\* length, once its masks are scored and before any mask line; the line
\* reports T = 4^n and V = the number of compliant masks of length n, V <= T,
\* and the number of mask lines is the sum of the V.
C9_ProgressLines ==
    pc \in {"for_l", "for_c", "for_m", "done"} =>
        /\ Len(output) >= LengthsDone
        /\ pc \in {"for_l", "for_c"} => Len(output) = LengthsDone
        /\ pc \in {"for_m", "done"} => LengthsDone = Len(lengths)
        /\ \A k \in 1..Len(output) :
             IF k <= LengthsDone
             THEN /\ output[k].kind = "progress"
                  /\ output[k].total = 4 ^ lengths[k]
                  /\ output[k].valid <= output[k].total
                  /\ k > 1 => lengths[k - 1] < lengths[k]
                  /\ pc \in {"for_l", "done"} =>
                        output[k].valid = Cardinality(CompliantMasks(lengths[k]))
             ELSE output[k].kind = "mask"
        /\ pc = "done" => Len(output) - LengthsDone = SumValid(output, LengthsDone)

C9_Witness ==
    /\ pc = "done"
    /\ Len(lengths) >= 2
    /\ output[Len(lengths)].kind = "progress"
    /\ output[Len(lengths)].valid > 0
    /\ Len(output) > Len(lengths) + output[Len(lengths)].valid

====
